---- MODULE Spec2Model ----
(***************************************************************************)
(* pynxm: a client of the Nexus Mods HTTP API (src/pynxm.py).              *)
(*                                                                         *)
(* The model follows one Nexus instance: its persistent session headers,   *)
(* its nexus_headers mapping, and the call in progress.  An endpoint       *)
(* method builds its arguments and enters _make_request, which blocks in   *)
(* session.request (pc = "waiting") until the transport either returns a   *)
(* response or raises; the rest of _make_request then runs in one step.    *)
(* A second specification, SpecSso, follows the classmethod Nexus.sso      *)
(* through its blocking calls.                                             *)
(*                                                                         *)
(* Python values: an optional argument is None or Some(x); a dict passed   *)
(* as params or data is a sequence of <<key, value>> pairs (dicts keep     *)
(* insertion order, and the query string is built in that order); a header *)
(* mapping is a function from names to values.  A response header name is  *)
(* a sequence of characters, so that the test `"X-" in k` is a substring   *)
(* test.  A response body is a sequence of tokens, which json_loads        *)
(* parses.  A formatted string is the sequence of its parts.               *)
(***************************************************************************)
EXTENDS Integers, Sequences, FiniteSets, TLC

None == <<>>
Some(x) == <<x>>

\* How many endpoint calls a behaviour makes on the instance.
MaxCalls == 2

VARIABLES
    session_headers,  \* self.session.headers
    nexus_headers,    \* self.nexus_headers
    pc,               \* "idle", or "waiting" inside session.request
    call,             \* the endpoint method called last and its arguments
    request,          \* the HTTP request performed last, as sent
    response,         \* _make_request's local `response` of the last call
    mr,               \* how _make_request ended in the last call
    outcome,          \* how the endpoint method ended in the last call
    callCount,        \* endpoint calls made
    reqCount,         \* HTTP requests performed
    prev,             \* when the last call began: whether nexus_headers held
                      \* an entry, whether the request before had headers
    sso               \* the state of a Nexus.sso handshake

vars == <<session_headers, nexus_headers, pc, call, request, response, mr,
          outcome, callCount, reqCount, prev, sso>>

(***************************************************************************)
(* Module constants of src/pynxm.py                                        *)
(***************************************************************************)
USER_AGENT == "pynxm/0.1.0 (<platform>; <architecture>) <implementation>/<version>"
BASE_URL == "https://api.nexusmods.com/v1/"
TIMEOUT == 30
LIMIT_MSG ==
    <<"You have reached your request limit. ",
      "Please wait one hour before trying again.">>
JSON_TYPE == "application/json"
FORM_TYPE == "application/x-www-form-urlencoded"

(***************************************************************************)
(* The inputs                                                              *)
(***************************************************************************)
ApiKeys == {"test-key"}
Games == {"game_id"}
ModIds == {"mod_id"}
FileIds == {"file_id"}
Md5s == {"md5"}
Periods == {"1d", "1w", "1m", "1y"}
NxmKeys == {None, Some("key"), Some("")}
Expiries == {None, Some("expires")}
Categories ==
    { [type |-> "NoneType", items |-> <<>>],
      [type |-> "str", items |-> <<"main,update">>],
      [type |-> "list", items |-> <<"main", "update">>] }

\* Response header names, character by character.
HeaderNames ==
    { <<"X", "-", "R", "L">>,      \* starts with "X-"
      <<"M", "A", "X", "-", "A">>, \* holds "X-" further in
      <<"x", "-", "r", "l">> }     \* holds "x-" in lower case only
HeaderValues == {"1"}
HeaderDicts == UNION { [S -> HeaderValues] : S \in SUBSET HeaderNames }

Statuses == {200, 201, 204, 404, 429, 503, 504}
Reasons == {"Service Unavailable", "Gateway Timeout"}

\* Response bodies, token by token.
Bodies ==
    { <<>>,
      <<"<html>">>,
      <<"{", "test", ":", "content", "}">>,
      <<"{", "message", ":", "m1", "}">>,
      <<"{", "error", ":", "e1", "}">>,
      <<"{", "error", ":", "e1", ",", "message", ":", "m1", "}">>,
      <<"[", "a", ",", "b", "]">> }

Responses ==
    [status_code : Statuses, reason : Reasons, headers : HeaderDicts,
     body : Bodies]

(***************************************************************************)
(* Helpers: what the libraries the code calls do                           *)
(***************************************************************************)
\* str.upper() on the operations the endpoint methods pass.
Upper(operation) ==
    CASE operation = "get" -> "GET"
      [] operation = "post" -> "POST"
      [] operation = "delete" -> "DELETE"

\* str(b) for a bool, which is how requests encodes a bool query value.
PyStr(b) == IF b THEN "True" ELSE "False"

\* requests merges the per-call headers over the session's into a new
\* mapping: the call's value wins, the session's mapping is not written.
MergeHeaders(persistent, override) ==
    [k \in DOMAIN persistent \cup DOMAIN override |->
        IF k \in DOMAIN override THEN override[k] ELSE persistent[k]]

EmptyHeaders == [k \in {} |-> ""]

Punctuation == {"{", "}", "[", "]", ":", ","}
IsString(t) == t \notin Punctuation

RECURSIVE ParsePairs(_)
\* members ::= string ":" string ("," string ":" string)*
ParsePairs(t) ==
    IF Len(t) >= 3 /\ IsString(t[1]) /\ t[2] = ":" /\ IsString(t[3])
    THEN IF Len(t) = 3
         THEN Some(<< <<t[1], t[3]>> >>)
         ELSE IF t[4] = ","
              THEN LET rest == ParsePairs(SubSeq(t, 5, Len(t)))
                   IN  IF rest = None THEN None
                       ELSE Some(<< <<t[1], t[3]>> >> \o rest[1])
              ELSE None
    ELSE None

RECURSIVE ParseItems(_)
\* elements ::= string ("," string)*
ParseItems(t) ==
    IF Len(t) >= 1 /\ IsString(t[1])
    THEN IF Len(t) = 1
         THEN Some(<<t[1]>>)
         ELSE IF t[2] = ","
              THEN LET rest == ParseItems(SubSeq(t, 3, Len(t)))
                   IN  IF rest = None THEN None ELSE Some(<<t[1]>> \o rest[1])
              ELSE None
    ELSE None

\* A dict from its pairs in order: a later pair replaces an earlier one.
DictOf(pairs) ==
    [k \in {pairs[i][1] : i \in DOMAIN pairs} |->
        LET last == CHOOSE i \in DOMAIN pairs :
                        /\ pairs[i][1] = k
                        /\ \A j \in DOMAIN pairs : pairs[j][1] = k => j <= i
        IN  pairs[last][2]]

JsonObject(pairs) == [type |-> "object", obj |-> DictOf(pairs), arr |-> <<>>]
JsonArray(items) == [type |-> "array", obj |-> EmptyHeaders, arr |-> items]
PyNone == [type |-> "NoneType", obj |-> EmptyHeaders, arr |-> <<>>]

\* response.json(): the decoded value, or a decode error.
json_loads(body) ==
    LET n == Len(body)
        inner == SubSeq(body, 2, n - 1)
    IN  IF n >= 2 /\ body[1] = "{" /\ body[n] = "}"
        THEN IF n = 2 THEN [ok |-> TRUE, value |-> JsonObject(<<>>)]
             ELSE LET m == ParsePairs(inner)
                  IN  IF m = None THEN [ok |-> FALSE, value |-> PyNone]
                      ELSE [ok |-> TRUE, value |-> JsonObject(m[1])]
        ELSE IF n >= 2 /\ body[1] = "[" /\ body[n] = "]"
        THEN IF n = 2 THEN [ok |-> TRUE, value |-> JsonArray(<<>>)]
             ELSE LET m == ParseItems(inner)
                  IN  IF m = None THEN [ok |-> FALSE, value |-> PyNone]
                      ELSE [ok |-> TRUE, value |-> JsonArray(m[1])]
        ELSE [ok |-> FALSE, value |-> PyNone]

Return(v) == [kind |-> "return", value |-> v]
Raise(exc, args) == [kind |-> exc, value |-> args]
NoOutcome == [kind |-> "none", value |-> <<>>]

\* "Status Code {} - {}".format(status_code, msg)
StatusMsg(status_code, msg) == <<"Status Code ", status_code, " - ", msg>>

(***************************************************************************)
(* Nexus.__init__                                                          *)
(***************************************************************************)
InitHeaders(api_key) ==
    [k \in {"user-agent", "apikey", "content-type"} |->
        CASE k = "user-agent" -> USER_AGENT
          [] k = "apikey" -> api_key
          [] k = "content-type" -> JSON_TYPE]

NoSso == [pc |-> "unused"]

Init ==
    /\ \E api_key \in ApiKeys : session_headers = InitHeaders(api_key)
    /\ nexus_headers = EmptyHeaders
    /\ pc = "idle"
    /\ call = None
    /\ request = None
    /\ response = None
    /\ mr = NoOutcome
    /\ outcome = NoOutcome
    /\ callCount = 0
    /\ reqCount = 0
    /\ prev = [had_x |-> FALSE, override |-> FALSE]
    /\ sso = NoSso

(***************************************************************************)
(* Nexus._make_request                                                     *)
(***************************************************************************)
\* As XHeaders, had line 107 tested k.startswith("X-").
XHeadersPrefix(headers) ==
    [k \in {h \in DOMAIN headers : Len(h) >= 2 /\ h[1] = "X" /\ h[2] = "-"} |->
        headers[k]]

\* The dict comprehension of line 107: the headers whose name holds "X-".
XHeaders(headers) ==
    [k \in {h \in DOMAIN headers :
                \E i \in 1..(Len(h) - 1) : h[i] = "X" /\ h[i + 1] = "-"} |->
        headers[k]]

\* As BodyError, had the `error` field been read first.
BodyErrorFirst(status_code, body) ==
    LET j == json_loads(body)
    IN  IF ~j.ok THEN Raise("JSONDecodeError", <<>>)
        ELSE IF j.value.type # "object" THEN Raise("TypeError", <<>>)
        ELSE IF "error" \in DOMAIN j.value.obj
        THEN Raise("RequestError", StatusMsg(status_code, j.value.obj["error"]))
        ELSE IF "message" \in DOMAIN j.value.obj
        THEN Raise("RequestError", StatusMsg(status_code, j.value.obj["message"]))
        ELSE Raise("KeyError", <<"message">>)

\* As BodyError, had the fields been read with a default.
BodyErrorDefault(status_code, body) ==
    LET j == json_loads(body)
    IN  IF ~j.ok THEN Raise("JSONDecodeError", <<>>)
        ELSE IF j.value.type # "object" THEN Raise("TypeError", <<>>)
        ELSE IF "message" \in DOMAIN j.value.obj
        THEN Raise("RequestError", StatusMsg(status_code, j.value.obj["message"]))
        ELSE IF "error" \in DOMAIN j.value.obj
        THEN Raise("RequestError", StatusMsg(status_code, j.value.obj["error"]))
        ELSE Raise("RequestError", StatusMsg(status_code, ""))

\* Lines 116-121: the message of any other status, from the body.
BodyError(status_code, body) ==
    LET j == json_loads(body)
    IN  IF ~j.ok THEN Raise("JSONDecodeError", <<>>)
        ELSE IF j.value.type # "object" THEN Raise("TypeError", <<>>)
        ELSE IF "message" \in DOMAIN j.value.obj
        THEN Raise("RequestError", StatusMsg(status_code, j.value.obj["message"]))
        ELSE IF "error" \in DOMAIN j.value.obj
        THEN Raise("RequestError", StatusMsg(status_code, j.value.obj["error"]))
        ELSE Raise("KeyError", <<"error">>)

\* As Classify, had line 108 tested status_code != 200.
ClassifyOnly200(resp) ==
    LET status_code == resp.status_code
    IN  IF status_code # 200
        THEN IF status_code = 429
             THEN Raise("LimitReachedError", LIMIT_MSG)
             ELSE IF status_code \in {503, 504}
             THEN Raise("RequestError", StatusMsg(status_code, resp.reason))
             ELSE BodyError(status_code, resp.body)
        ELSE LET j == json_loads(resp.body)
             IN  IF j.ok THEN Return(j.value)
                 ELSE Raise("JSONDecodeError", <<>>)

\* As Classify, without the branch of line 109.
ClassifyNo429(resp) ==
    LET status_code == resp.status_code
    IN  IF status_code \notin {200, 201}
        THEN IF status_code \in {503, 504}
             THEN Raise("RequestError", StatusMsg(status_code, resp.reason))
             ELSE BodyError(status_code, resp.body)
        ELSE LET j == json_loads(resp.body)
             IN  IF j.ok THEN Return(j.value)
                 ELSE Raise("JSONDecodeError", <<>>)

\* As Classify, had line 114 tested status_code == 503.
ClassifyOnly503(resp) ==
    LET status_code == resp.status_code
    IN  IF status_code \notin {200, 201}
        THEN IF status_code = 429
             THEN Raise("LimitReachedError", LIMIT_MSG)
             ELSE IF status_code = 503
             THEN Raise("RequestError", StatusMsg(status_code, resp.reason))
             ELSE BodyError(status_code, resp.body)
        ELSE LET j == json_loads(resp.body)
             IN  IF j.ok THEN Return(j.value)
                 ELSE Raise("JSONDecodeError", <<>>)

\* Lines 106-122: the outcome of _make_request for a response.
Classify(resp) ==
    LET status_code == resp.status_code
    IN  IF status_code \notin {200, 201}
        THEN IF status_code = 429
             THEN Raise("LimitReachedError", LIMIT_MSG)
             ELSE IF status_code \in {503, 504}
             THEN Raise("RequestError", StatusMsg(status_code, resp.reason))
             ELSE BodyError(status_code, resp.body)
        ELSE LET j == json_loads(resp.body)
             IN  IF j.ok THEN Return(j.value)
                 ELSE Raise("JSONDecodeError", <<>>)

\* What the endpoint method hands its caller: user_tracked_add and
\* user_tracked_delete drop _make_request's value, the others return it.
MethodResult(method, r) ==
    IF r.kind = "return" /\ method \in {"user_tracked_add", "user_tracked_delete"}
    THEN Return(PyNone)
    ELSE r

\* An endpoint method can be called: the instance exists and, calls being
\* synchronous, none is in progress.
Callable == pc = "idle" /\ callCount < MaxCalls

\* The headers of the request the session sends for per-call headers.
SentHeaders(headers) == MergeHeaders(session_headers, headers)

\* As PersistentHeaders, had the call's headers been written into the session.
PersistentHeadersUpdated(persistent, headers) == MergeHeaders(persistent, headers)

\* Lines 98-105: the call's headers go to session.request as an argument;
\* self.session.headers is read for the merge and is not assigned.
PersistentHeaders(persistent, headers) == persistent

\* Lines 91-105: the defaults, then session.request is entered.
make_request(method, args, operation, endpoint, payload, data, headers) ==
    /\ LET p == IF payload = None THEN <<>> ELSE payload[1]
           d == IF data = None THEN <<>> ELSE data[1]
           h == IF headers = None THEN EmptyHeaders ELSE headers[1]
       IN  /\ request' = Some([operation |-> Upper(operation),
                               url |-> <<BASE_URL>> \o endpoint,
                               params |-> p,
                               data |-> d,
                               headers |-> h,
                               sent_headers |-> SentHeaders(h),
                               timeout |-> TIMEOUT])
           /\ prev' = [had_x |-> (nexus_headers # EmptyHeaders),
                       override |-> (request # None
                                     /\ request[1].headers # EmptyHeaders)]
    /\ pc' = "waiting"
    /\ call' = Some([method |-> method, args |-> args])
    /\ callCount' = callCount + 1
    /\ reqCount' = reqCount + 1
    /\ response' = None
    /\ mr' = NoOutcome
    /\ outcome' = NoOutcome
    /\ session_headers' =
           PersistentHeaders(session_headers,
                             IF headers = None THEN EmptyHeaders ELSE headers[1])
    /\ UNCHANGED <<nexus_headers, sso>>

\* session.request returned: lines 106-122, and the method's own return.
session_request_returns ==
    \E resp \in Responses :
        /\ pc = "waiting"
        /\ response' = Some(resp)
        /\ nexus_headers' = XHeaders(resp.headers)
        /\ mr' = Classify(resp)
        /\ outcome' = MethodResult(call[1].method, Classify(resp))
        /\ pc' = "idle"
        /\ UNCHANGED <<session_headers, call, request, callCount, reqCount,
                       prev, sso>>

\* session.request raised (no connection, the 30 s timeout): the error
\* leaves _make_request at line 98, before nexus_headers is assigned.
session_request_raises ==
    /\ pc = "waiting"
    /\ mr' = Raise("RequestException", <<>>)
    /\ outcome' = Raise("RequestException", <<>>)
    /\ pc' = "idle"
    /\ UNCHANGED <<session_headers, nexus_headers, call, request, response,
                   callCount, reqCount, prev, sso>>

(***************************************************************************)
(* The endpoint methods                                                    *)
(***************************************************************************)
colour_schemes_list ==
    /\ Callable
    /\ make_request("colour_schemes_list", <<>>, "get", <<"colourschemes.json">>,
                    None, None, None)

user_details ==
    /\ Callable
    /\ make_request("user_details", <<>>, "get", <<"users/validate.json">>,
                    None, None, None)

user_tracked_list ==
    /\ Callable
    /\ make_request("user_tracked_list", <<>>, "get", <<"user/tracked_mods.json">>,
                    None, None, None)

user_tracked_add ==
    \E game \in Games, mod_id \in ModIds :
        /\ Callable
        /\ make_request("user_tracked_add", [game |-> game, mod_id |-> mod_id],
                        "post", <<"user/tracked_mods.json">>,
                        Some(<< <<"domain_name", game>> >>),
                        Some(<< <<"mod_id", mod_id>> >>),
                        Some([k \in {"content-type"} |-> FORM_TYPE]))

user_tracked_delete ==
    \E game \in Games, mod_id \in ModIds :
        /\ Callable
        /\ make_request("user_tracked_delete", [game |-> game, mod_id |-> mod_id],
                        "delete", <<"user/tracked_mods.json">>,
                        Some(<< <<"domain_name", game>> >>),
                        Some(<< <<"mod_id", mod_id>> >>),
                        Some([k \in {"content-type"} |-> FORM_TYPE]))

user_endorsements_list ==
    /\ Callable
    /\ make_request("user_endorsements_list", <<>>, "get",
                    <<"user/endorsements.json">>, None, None, None)

game_details ==
    \E game \in Games :
        /\ Callable
        /\ make_request("game_details", [game |-> game], "get",
                        <<"games/", game, ".json">>, None, None, None)

game_list ==
    \E include_unapproved \in BOOLEAN :
        /\ Callable
        /\ make_request("game_list", [include_unapproved |-> include_unapproved],
                        "get", <<"games.json">>,
                        Some(<< <<"include_unapproved", PyStr(include_unapproved)>> >>),
                        None, None)

\* As ValidPeriod, without the check.
ValidPeriodAny(period) == TRUE

\* Line 205: the periods the method accepts.
ValidPeriod(period) == period \in {"1d", "1w", "1m"}

\* Lines 205-206: the method raises before _make_request is entered.
RaiseLocally(method, args, exc, msg) ==
    /\ call' = Some([method |-> method, args |-> args])
    /\ callCount' = callCount + 1
    /\ response' = None
    /\ mr' = NoOutcome
    /\ outcome' = Raise(exc, msg)
    /\ prev' = [had_x |-> (nexus_headers # EmptyHeaders),
                override |-> (request # None
                              /\ request[1].headers # EmptyHeaders)]
    /\ UNCHANGED <<session_headers, nexus_headers, pc, request, reqCount, sso>>

game_updated_list ==
    \E game \in Games, period \in Periods :
        /\ Callable
        /\ IF ~ValidPeriod(period)
           THEN RaiseLocally("game_updated_list",
                             [game |-> game, period |-> period], "ValueError",
                             <<"Allowed values for 'period' argument: '1d', '1w', '1m'.">>)
           ELSE make_request("game_updated_list",
                             [game |-> game, period |-> period],
                             "get", <<"games/", game, "/mods/updated.json">>,
                             Some(<< <<"period", period>> >>), None, None)

game_latest_added_list ==
    \E game \in Games :
        /\ Callable
        /\ make_request("game_latest_added_list", [game |-> game], "get",
                        <<"games/", game, "/mods/latest_added.json">>,
                        None, None, None)

game_latest_updated_list ==
    \E game \in Games :
        /\ Callable
        /\ make_request("game_latest_updated_list", [game |-> game], "get",
                        <<"games/", game, "/mods/latest_updated.json">>,
                        None, None, None)

game_trending_list ==
    \E game \in Games :
        /\ Callable
        /\ make_request("game_trending_list", [game |-> game], "get",
                        <<"games/", game, "/mods/trending.json">>,
                        None, None, None)

mod_details ==
    \E game \in Games, mod_id \in ModIds :
        /\ Callable
        /\ make_request("mod_details", [game |-> game, mod_id |-> mod_id], "get",
                        <<"games/", game, "/mods/", mod_id, ".json">>,
                        None, None, None)

mod_search ==
    \E game \in Games, md5_hash \in Md5s :
        /\ Callable
        /\ make_request("mod_search", [game |-> game, md5_hash |-> md5_hash], "get",
                        <<"games/", game, "/mods/md5_search/", md5_hash, ".json">>,
                        None, None, None)

mod_endorse ==
    \E game \in Games, mod_id \in ModIds :
        /\ Callable
        /\ make_request("mod_endorse", [game |-> game, mod_id |-> mod_id], "post",
                        <<"games/", game, "/mods/", mod_id, "/endorse.json">>,
                        None, None, None)

mod_abstain ==
    \E game \in Games, mod_id \in ModIds :
        /\ Callable
        /\ make_request("mod_abstain", [game |-> game, mod_id |-> mod_id], "post",
                        <<"games/", game, "/mods/", mod_id, "/abstain.json">>,
                        None, None, None)

RECURSIVE Join(_, _)
\* sep.join(items), part by part.
Join(sep, items) ==
    IF Len(items) = 0 THEN <<>>
    ELSE IF Len(items) = 1 THEN <<items[1]>>
    ELSE <<items[1], sep>> \o Join(sep, Tail(items))

\* Lines 291-296: the payload of mod_file_list.
FileListPayload(categories) ==
    IF categories.type = "list"
    THEN Some(<< <<"category", Join(",", categories.items)>> >>)
    ELSE IF categories.type = "str"
    THEN Some(<< <<"category", categories.items>> >>)
    ELSE None

mod_file_list ==
    \E game \in Games, mod_id \in ModIds, categories \in Categories :
        /\ Callable
        /\ make_request("mod_file_list",
                        [game |-> game, mod_id |-> mod_id, categories |-> categories],
                        "get", <<"games/", game, "/mods/", mod_id, "/files.json">>,
                        FileListPayload(categories), None, None)

mod_file_details ==
    \E game \in Games, mod_id \in ModIds, file_id \in FileIds :
        /\ Callable
        /\ make_request("mod_file_details",
                        [game |-> game, mod_id |-> mod_id, file_id |-> file_id],
                        "get",
                        <<"games/", game, "/mods/", mod_id, "/files/", file_id, ".json">>,
                        None, None, None)

\* As DownloadLinkPayload, had each key been dropped on its own.
DownloadLinkPayloadEach(nxm_key, expires) ==
    IF nxm_key = None /\ expires = None
    THEN None
    ELSE Some((IF nxm_key = None THEN <<>> ELSE << <<"key", nxm_key[1]>> >>)
              \o (IF expires = None THEN <<>>
                  ELSE << <<"expires", expires[1]>> >>))

\* Lines 326-329: the payload of mod_file_download_link.
DownloadLinkPayload(nxm_key, expires) ==
    IF nxm_key = None \/ expires = None
    THEN None
    ELSE Some(<< <<"key", nxm_key[1]>>, <<"expires", expires[1]>> >>)

mod_file_download_link ==
    \E game \in Games, mod_id \in ModIds, file_id \in FileIds,
       nxm_key \in NxmKeys, expires \in Expiries :
        /\ Callable
        /\ make_request("mod_file_download_link",
                        [game |-> game, mod_id |-> mod_id, file_id |-> file_id,
                         nxm_key |-> nxm_key, expires |-> expires],
                        "get",
                        <<"games/", game, "/mods/", mod_id, "/files/", file_id,
                          "/download_link.json">>,
                        DownloadLinkPayload(nxm_key, expires), None, None)

mod_changelog_list ==
    \E game \in Games, mod_id \in ModIds :
        /\ Callable
        /\ make_request("mod_changelog_list", [game |-> game, mod_id |-> mod_id],
                        "get",
                        <<"games/", game, "/mods/", mod_id, "/changelogs.json">>,
                        None, None, None)

Next ==
    \/ colour_schemes_list
    \/ user_details
    \/ user_tracked_list
    \/ user_tracked_add
    \/ user_tracked_delete
    \/ user_endorsements_list
    \/ game_details
    \/ game_list
    \/ game_updated_list
    \/ game_latest_added_list
    \/ game_latest_updated_list
    \/ game_trending_list
    \/ mod_details
    \/ mod_search
    \/ mod_endorse
    \/ mod_abstain
    \/ mod_file_list
    \/ mod_file_details
    \/ mod_file_download_link
    \/ mod_changelog_list
    \/ session_request_returns
    \/ session_request_raises

Spec == Init /\ [][Next]_vars

(***************************************************************************)
(* Nexus.sso                                                               *)
(***************************************************************************)
SSO_URL == "wss://sso.nexusmods.com"
AppSlugs == {"app1", "app2"}
SsoTokens == {"token1", "token2"}
SsoIds == {None, Some("id1")}
Uuids == {"uuid1", "uuid2"}
\* What ws.recv() can hand back.
Messages == {"key1", "key2"}

\* json.dumps of a dict of strings, token by token.
RECURSIVE DumpPairs(_)
DumpPairs(pairs) ==
    IF Len(pairs) = 0 THEN <<>>
    ELSE IF Len(pairs) = 1 THEN <<pairs[1][1], ":", pairs[1][2]>>
    ELSE <<pairs[1][1], ":", pairs[1][2], ",">> \o DumpPairs(Tail(pairs))

json_dumps(pairs) == <<"{">> \o DumpPairs(pairs) \o <<"}">>

\* Lines 85-86: the confirmation URL.
ConfirmUrl(sso_id, app_slug) ==
    <<"https://www.nexusmods.com/", "sso?id=", sso_id, "&application=", app_slug>>

InitSso ==
    /\ session_headers = EmptyHeaders
    /\ nexus_headers = EmptyHeaders
    /\ pc = "unconstructed"
    /\ call = None
    /\ request = None
    /\ response = None
    /\ mr = NoOutcome
    /\ outcome = NoOutcome
    /\ callCount = 0
    /\ reqCount = 0
    /\ prev = [had_x |-> FALSE, override |-> FALSE]
    /\ sso = [pc |-> "start", app_slug |-> None, sso_token |-> None,
              given_id |-> None, sso_id |-> None, connections |-> <<>>,
              sent |-> <<>>, opened |-> <<>>, launched |-> "not tried",
              received |-> <<>>, failed_at |-> "nowhere"]

ApiUnchanged ==
    UNCHANGED <<nexus_headers, call, request, response, mr, outcome,
                callCount, reqCount, prev>>

\* A call the handshake makes raises: the exception leaves sso.
SsoRaises(step) ==
    /\ sso' = [sso EXCEPT !.pc = "failed", !.failed_at = step]
    /\ UNCHANGED <<session_headers, pc>>
    /\ ApiUnchanged

\* Line 80: sso is called, and create_connection returns a socket or raises.
sso_create_connection ==
    \E app_slug \in AppSlugs, sso_token \in SsoTokens, sso_id \in SsoIds,
       connects \in BOOLEAN :
        /\ sso.pc = "start"
        /\ LET entered == [sso EXCEPT !.app_slug = Some(app_slug),
                                      !.sso_token = Some(sso_token),
                                      !.given_id = sso_id,
                                      !.connections = <<SSO_URL>>]
           IN  sso' = IF connects
                      THEN [entered EXCEPT !.pc = "connected"]
                      ELSE [entered EXCEPT !.pc = "failed",
                                           !.failed_at = "create_connection"]
        /\ UNCHANGED <<session_headers, pc>>
        /\ ApiUnchanged

\* Lines 81-82: the id of the handshake.
ChooseId(given_id, fresh) == IF given_id = None THEN fresh ELSE given_id[1]

\* Lines 81-83: the id is settled, and ws.send sends the message or raises.
sso_send ==
    \E fresh \in Uuids, sends \in BOOLEAN :
        /\ sso.pc = "connected"
        /\ LET sso_id == ChooseId(sso.given_id, fresh)
               message == json_dumps(<< <<"id", sso_id>>,
                                        <<"token", sso.sso_token[1]>> >>)
           IN  IF sends
               THEN /\ sso' = [sso EXCEPT !.pc = "sent",
                                          !.sso_id = Some(sso_id),
                                          !.sent = Append(@, message)]
                    /\ UNCHANGED <<session_headers, pc>>
                    /\ ApiUnchanged
               ELSE SsoRaises("send")

\* Where sso goes after webbrowser.open, whose result it does not read.
AfterBrowser(launched) == IF launched = "raised" THEN "failed" ELSE "awaiting"

\* Lines 84-87: webbrowser.open returns True (a browser was launched),
\* returns False (none could be) or raises webbrowser.Error.
sso_webbrowser_open ==
    \E launched \in {"True", "False", "raised"} :
        /\ sso.pc = "sent"
        /\ sso' = [sso EXCEPT !.pc = AfterBrowser(launched),
                              !.opened = Append(@, ConfirmUrl(sso.sso_id[1],
                                                              sso.app_slug[1])),
                              !.launched = launched,
                              !.failed_at = IF AfterBrowser(launched) = "failed"
                                            THEN "webbrowser.open" ELSE @]
        /\ UNCHANGED <<session_headers, pc>>
        /\ ApiUnchanged

\* Lines 88-89: ws.recv returns one message, and cls(api_key) builds the
\* instance from it.
sso_recv ==
    \E api_key \in Messages :
        /\ sso.pc = "awaiting"
        /\ sso' = [sso EXCEPT !.pc = "done", !.received = Append(@, api_key)]
        /\ session_headers' = InitHeaders(api_key)
        /\ pc' = "idle"
        /\ ApiUnchanged

\* Line 88: ws.recv raises (the socket closed before a message came).
sso_recv_raises ==
    /\ sso.pc = "awaiting"
    /\ SsoRaises("recv")

NextSso ==
    \/ sso_create_connection
    \/ sso_send
    \/ sso_webbrowser_open
    \/ sso_recv
    \/ sso_recv_raises
    \/ user_details
    \/ session_request_returns
    \/ session_request_raises

SpecSso == InitSso /\ [][NextSso]_vars

(***************************************************************************)
(* The claims                                                              *)
(***************************************************************************)
XRL == <<"X", "-", "R", "L">>
MAXA == <<"M", "A", "X", "-", "A">>
LowerXrl == <<"x", "-", "r", "l">>
TestJson == <<"{", "test", ":", "content", "}">>
MessageBody == <<"{", "message", ":", "m1", "}">>
ErrorBody == <<"{", "error", ":", "e1", "}">>
BothBody == <<"{", "error", ":", "e1", ",", "message", ":", "m1", "}">>
NoValueMethods == {"user_tracked_add", "user_tracked_delete"}

\* A name holds the characters "X", "-" next to each other, in that case.
HoldsXDash(name) ==
    \E i \in DOMAIN name : i < Len(name) /\ name[i] = "X" /\ name[i + 1] = "-"

\* C1: after a call of _make_request that obtained a response, whatever its
\* outcome, nexus_headers holds every response header whose name holds "X-",
\* with its value, and holds nothing else: nothing of an earlier call.
C1_HeadersRefreshed ==
    response # None =>
        LET hs == response[1].headers
        IN  /\ \A k \in DOMAIN hs :
                  HoldsXDash(k) => k \in DOMAIN nexus_headers
                                   /\ nexus_headers[k] = hs[k]
            /\ \A k \in DOMAIN nexus_headers : k \in DOMAIN hs /\ HoldsXDash(k)

\* A failed second call whose response has no "X-" header empties a
\* nexus_headers that held an entry when the call began.
C1_Witness ==
    /\ callCount = 2
    /\ response # None
    /\ response[1].status_code = 404
    /\ mr.kind = "KeyError"
    /\ prev.had_x
    /\ DOMAIN response[1].headers = {LowerXrl}
    /\ nexus_headers = EmptyHeaders

\* C2 as stated: a response with status 200 or 201 makes _make_request
\* return the decoded body and raise nothing, and every endpoint method that
\* returns a value returns that value.
C2_Original ==
    (response # None /\ response[1].status_code \in {200, 201}) =>
        /\ mr.kind = "return"
        /\ mr.value = json_loads(response[1].body).value
        /\ (call[1].method \notin NoValueMethods => outcome = mr)

\* C2 (amended): a response with status 200 or 201 whose body is valid JSON
\* makes _make_request return the decoded body, and every endpoint method
\* that returns a value returns that value; a body that is not valid JSON
\* makes the call raise the decode error of response.json().
C2_Amended ==
    (response # None /\ response[1].status_code \in {200, 201}) =>
        LET j == json_loads(response[1].body)
        IN  /\ j.ok =>
                  /\ mr = Return(j.value)
                  /\ (call[1].method \notin NoValueMethods => outcome = mr)
            /\ response[1].body = TestJson =>
                  /\ mr.kind = "return"
                  /\ mr.value.type = "object"
                  /\ mr.value.obj = [test |-> "content"]
            /\ ~j.ok => mr.kind = "JSONDecodeError" /\ outcome = mr

\* mod_endorse returns the decoded body of a 201 response.
C2_Witness ==
    /\ response # None
    /\ response[1].status_code = 201
    /\ response[1].body = TestJson
    /\ call[1].method = "mod_endorse"
    /\ outcome.kind = "return"
    /\ outcome.value.obj = [test |-> "content"]

\* C3: a response with status 429 makes _make_request raise
\* LimitReachedError with the fixed message, whatever the body is.
C3_LimitReached ==
    (response # None /\ response[1].status_code = 429) =>
        /\ mr.kind = "LimitReachedError"
        /\ mr.value = <<"You have reached your request limit. ",
                        "Please wait one hour before trying again.">>
        /\ outcome = mr

\* A 429 response whose body is a JSON object with a `message` field.
C3_Witness ==
    /\ response # None
    /\ response[1].status_code = 429
    /\ response[1].body = MessageBody
    /\ outcome.kind = "LimitReachedError"

\* C4: a response with status 503 or 504 makes _make_request raise
\* RequestError with the status code and the reason phrase, whatever the
\* body is.
C4_Unavailable ==
    (response # None /\ response[1].status_code \in {503, 504}) =>
        /\ mr.kind = "RequestError"
        /\ mr.value = <<"Status Code ", response[1].status_code, " - ",
                        response[1].reason>>
        /\ outcome = mr

\* A 504 response whose body is a JSON object with a `message` field.
C4_Witness ==
    /\ response # None
    /\ response[1].status_code = 504
    /\ response[1].reason = "Gateway Timeout"
    /\ response[1].body = MessageBody
    /\ outcome = Raise("RequestError",
                       <<"Status Code ", 504, " - ", "Gateway Timeout">>)

\* C5: a response with any other status and a JSON object as body makes
\* _make_request raise RequestError with the status code and the value of
\* `message` when the body has one, else of `error` when it has that.
C5_MessageThenError ==
    (/\ response # None
     /\ response[1].status_code \notin {200, 201, 429, 503, 504}
     /\ json_loads(response[1].body).ok
     /\ json_loads(response[1].body).value.type = "object") =>
        LET code == response[1].status_code
            obj == json_loads(response[1].body).value.obj
        IN  /\ "message" \in DOMAIN obj =>
                  mr = Raise("RequestError",
                             <<"Status Code ", code, " - ", obj["message"]>>)
            /\ ("message" \notin DOMAIN obj /\ "error" \in DOMAIN obj) =>
                  mr = Raise("RequestError",
                             <<"Status Code ", code, " - ", obj["error"]>>)
            /\ response[1].body = BothBody => mr.value[4] = "m1"
            /\ response[1].body = ErrorBody => mr.value[4] = "e1"

\* A 404 response whose body has both fields.
C5_Witness ==
    /\ response # None
    /\ response[1].status_code = 404
    /\ response[1].body = BothBody
    /\ outcome = Raise("RequestError", <<"Status Code ", 404, " - ", "m1">>)

\* C6: game_updated_list with a period other than "1d", "1w", "1m" raises
\* ValueError and sends no request, leaving nexus_headers and the session
\* headers as they were; with one of these periods it sends one GET whose
\* query is period=<value>, and no step after that sends another.
C6_Period ==
    [][ /\ (callCount' = callCount + 1
            /\ call'[1].method = "game_updated_list") =>
               IF call'[1].args.period \notin {"1d", "1w", "1m"}
               THEN /\ outcome'.kind = "ValueError"
                    /\ pc' = "idle"
                    /\ reqCount' = reqCount
                    /\ request' = request
                    /\ nexus_headers' = nexus_headers
                    /\ session_headers' = session_headers
               ELSE /\ reqCount' = reqCount + 1
                    /\ request'[1].operation = "GET"
                    /\ request'[1].params =
                           << <<"period", call'[1].args.period>> >>
        /\ callCount' = callCount => reqCount' = reqCount ]_vars

\* A second call, with period "1y", after a first whose response left an
\* entry in nexus_headers.
C6_Witness ==
    /\ callCount = 2
    /\ call[1].method = "game_updated_list"
    /\ call[1].args.period = "1y"
    /\ outcome.kind = "ValueError"
    /\ reqCount = 1
    /\ nexus_headers # EmptyHeaders

\* C7: the session headers stay as the constructor set them, and a request
\* is sent with them, except that the content-type of a call that passes
\* one replaces the session's for that request alone.
C7_PersistentHeaders ==
    /\ DOMAIN session_headers = {"user-agent", "apikey", "content-type"}
    /\ session_headers["content-type"] = "application/json"
    /\ session_headers["apikey"] \in ApiKeys
    /\ session_headers["user-agent"] = USER_AGENT
    /\ request # None =>
          LET sent == request[1].sent_headers
              method == call[1].method
          IN  /\ DOMAIN sent = {"user-agent", "apikey", "content-type"}
              /\ sent["apikey"] = session_headers["apikey"]
              /\ sent["user-agent"] = session_headers["user-agent"]
              /\ (pc = "waiting" \/ mr.kind # "none") =>
                    sent["content-type"] =
                        IF method \in {"user_tracked_add", "user_tracked_delete"}
                        THEN "application/x-www-form-urlencoded"
                        ELSE "application/json"

\* The request after one that passed a content-type passes none and is sent
\* as application/json.
C7_Witness ==
    /\ callCount = 2
    /\ reqCount = 2
    /\ prev.override
    /\ call[1].method = "user_details"
    /\ request[1].headers = EmptyHeaders
    /\ request[1].sent_headers["content-type"] = "application/json"

\* What C8 says the query of mod_file_download_link is.
C8_EachKey(nxm_key, expires) ==
    (IF nxm_key = None THEN <<>> ELSE << <<"key", nxm_key[1]>> >>)
    \o (IF expires = None THEN <<>> ELSE << <<"expires", expires[1]>> >>)

\* The last call was mod_file_download_link and sent its request.
C8_Sent ==
    /\ call # None
    /\ call[1].method = "mod_file_download_link"
    /\ request # None

\* C8 as stated: mod_file_download_link sends the query key of each
\* parameter it was given and of no other, and no key with an empty value.
C8_Original ==
    C8_Sent =>
        /\ request[1].params = C8_EachKey(call[1].args.nxm_key,
                                          call[1].args.expires)
        /\ \A i \in DOMAIN request[1].params : request[1].params[i][2] # ""

\* C8 (amended): mod_file_download_link sends key=<nxm_key> and
\* expires=<expires> when it was given both, and no query at all when it was
\* given neither or only one of them; a value it sends is the argument it
\* was given, be it the empty string.
C8_Amended ==
    C8_Sent =>
        LET nxm_key == call[1].args.nxm_key
            expires == call[1].args.expires
        IN  /\ (nxm_key # None /\ expires # None) =>
                  request[1].params = << <<"key", nxm_key[1]>>,
                                         <<"expires", expires[1]>> >>
            /\ (nxm_key = None \/ expires = None) => request[1].params = <<>>

\* Called with nxm_key alone, the method sent a request without a query.
C8_Witness ==
    /\ C8_Sent
    /\ call[1].args.nxm_key = Some("key")
    /\ call[1].args.expires = None
    /\ request[1].params = <<>>
    /\ mr.kind = "return"

\* C9, the states: _make_request returns a value for status 200 or 201
\* alone; any other status ends in an error raised to the caller; a
\* RequestError carries the status code and either the reason phrase or the
\* value of a `message` or `error` field of the body, so that a body without
\* these fields gives no RequestError.
C9_State ==
    /\ mr.kind = "return" =>
          response # None /\ response[1].status_code \in {200, 201}
    /\ (response # None /\ response[1].status_code \notin {200, 201}) =>
          /\ mr.kind \in {"LimitReachedError", "RequestError", "KeyError",
                          "TypeError", "JSONDecodeError"}
          /\ outcome = mr
    /\ mr.kind = "RequestError" =>
          /\ Len(mr.value) = 4
          /\ mr.value[1] = "Status Code "
          /\ mr.value[2] = response[1].status_code
          /\ \/ /\ response[1].status_code \in {503, 504}
                /\ mr.value[4] = response[1].reason
             \/ /\ response[1].status_code \notin {503, 504}
                /\ \E i \in DOMAIN response[1].body :
                      /\ i + 2 <= Len(response[1].body)
                      /\ response[1].body[i] \in {"message", "error"}
                      /\ response[1].body[i + 1] = ":"
                      /\ response[1].body[i + 2] = mr.value[4]

\* C9, the steps: entering _make_request sends one request, and the step
\* that ends the call sends none.
C9_Step ==
    /\ (pc = "idle" /\ pc' = "waiting") => reqCount' = reqCount + 1
    /\ pc = "waiting" => (pc' = "idle" /\ reqCount' = reqCount)
    /\ reqCount' \in {reqCount, reqCount + 1}

\* C9: _make_request returns a value for status 200 or 201 alone and raises
\* an error to the caller for any other status, never a RequestError with an
\* empty or default message; a call sends one request and never retries.
C9_OnlySuccessReturns == []C9_State /\ [][C9_Step]_vars

\* A 204 response whose JSON body has neither field ends in KeyError.
C9_Witness ==
    /\ response # None
    /\ response[1].status_code = 204
    /\ response[1].body = TestJson
    /\ outcome.kind = "KeyError"
    /\ reqCount = callCount

\* C10, the sequence: the handshake connects, sends, opens the browser and
\* receives at most once each and in that order; the message is
\* {id, token} with the caller's id when one was given, else a fresh UUID;
\* the URL carries that id and the app slug; an instance exists only once
\* the key was received and has that key; no HTTP request precedes it.
C10_Sequence ==
    /\ Len(sso.connections) <= 1 /\ Len(sso.sent) <= 1
    /\ Len(sso.opened) <= 1 /\ Len(sso.received) <= 1
    /\ Len(sso.sent) <= Len(sso.connections)
    /\ Len(sso.opened) <= Len(sso.sent)
    /\ Len(sso.received) <= Len(sso.opened)
    /\ Len(sso.sent) = 1 =>
          /\ sso.sso_id # None
          /\ IF sso.given_id # None THEN sso.sso_id = sso.given_id
             ELSE sso.sso_id[1] \in Uuids
          /\ sso.sent[1] = <<"{", "id", ":", sso.sso_id[1], ",",
                             "token", ":", sso.sso_token[1], "}">>
    /\ Len(sso.opened) = 1 =>
          sso.opened[1] = <<"https://www.nexusmods.com/", "sso?id=",
                            sso.sso_id[1], "&application=", sso.app_slug[1]>>
    /\ pc # "unconstructed" =>
          /\ sso.pc = "done"
          /\ Len(sso.received) = 1
          /\ session_headers["apikey"] = sso.received[1]
    /\ sso.pc # "done" => reqCount = 0 /\ pc = "unconstructed"

\* C10, the failures: once the connection, the send, the browser launch or
\* the receive has failed, no later step runs and no instance is produced.
C10_FailureEnds ==
    (sso.failed_at # "nowhere" \/ sso.launched \in {"False", "raised"}) =>
        /\ pc = "unconstructed"
        /\ Len(sso.received) = 0

\* C10: Nexus.sso runs connect, send, open the browser, receive and
\* construct in that order and once each, produces an instance only from
\* the received key, and ends in failure, without an instance, when the
\* connection, the browser launch or the receive fails.
C10_Handshake == C10_Sequence /\ C10_FailureEnds

====
